---- MODULE Spec2Model ----
(***************************************************************************)
(* Model of src/lib/transactions-cache.ts: the debt simplification engine  *)
(* simplifyDebts (lines 124-282) and the transactions cache (lines 1-110). *)
(*                                                                         *)
(* Numbers.  The code computes with IEEE doubles, and so does the model:   *)
(* a number x >= 0 is the sequence of the digits in base 2^20, lowest      *)
(* digit first and without zeros at the high end, of the integer           *)
(* x * 2^70.  0, every double from 2^-18 up and every sum or difference of *)
(* such doubles is such an integer.  Add, Sub and Div give the exact       *)
(* result rounded to 53 significant binary digits, ties to even, as the    *)
(* operations +, - and / of the code do; Double(n, d) is the double        *)
(* nearest to n / d, the number that the decimal literal n / d denotes;    *)
(* Plus and Minus are the exact sum and difference, used where a property  *)
(* speaks of a sum that the code does not compute.  The code handles no    *)
(* negative number on the inputs of the model (amounts are not negative, a *)
(* debt is reduced by at most itself, the netting takes the absolute       *)
(* value).  Outside the model: amounts between 0 and 2^-18, shares below   *)
(* 2^-18, more than 2047 participants, Infinity and NaN.                   *)
(*                                                                         *)
(* Names.  A name is a JavaScript string: the sequence of its UTF-16 code  *)
(* units, which is what sort() compares and join() concatenates.           *)
(*                                                                         *)
(* Maps.  A JavaScript Map iterates in insertion order; set on a present   *)
(* key keeps its position, delete followed by set moves it to the end.     *)
(* A Map is modelled as a sequence of <<key, value>> pairs.                *)
(***************************************************************************)
EXTENDS Integers, Sequences, FiniteSets, TLC

VARIABLES transactions, pc, idx, pairwiseDebts, chainsFound, result

\* the transactions cache of lines 1-110: the cache object, the subscribers, the
\* backend queries, what the last call returned and which callbacks it called;
\* environment: NEXT_PUBLIC_SUPABASE_URL and NEXT_PUBLIC_SUPABASE_ANON_KEY are
\* both set (src/lib/supabase.ts:10-15), fixed when the program is built
VARIABLES cache, subscribers, loads, returned, called, unsubscribed, environment

engineVars == <<transactions, pc, idx, pairwiseDebts, chainsFound, result>>

cacheVars == <<cache, subscribers, loads, returned, called, unsubscribed, environment>>

vars == <<transactions, pc, idx, pairwiseDebts, chainsFound, result,
          cache, subscribers, loads, returned, called, unsubscribed, environment>>

(***************************************************************************)
(* Bounds of the model.                                                    *)
(***************************************************************************)
\* longest transaction list over three participants with any participant lists
MaxTx == 2
\* longest transaction list over four participants, one debtor per transaction
MaxTxWide == 3
\* most chain collapses of one call that the model follows
MaxChains == 12
\* longest transaction list handed to two invocations at once
MaxTxPair == 2
\* most backend queries that the model of the cache starts
MaxLoads == 3
\* most rows of the table shared_transactions
MaxRows == 1

(***************************************************************************)
(* Numbers.                                                                *)
(***************************************************************************)
\* binary digits of one digit of a number, and the base
LimbBits == 20

Base == 2 ^ LimbBits

\* a number is stored as its value times 2^GridBits: the digits 1 to 3 and the
\* GridBits - 3 * LimbBits low binary digits of digit 4 are the fraction
GridBits == 70

\* significant binary digits of a double
Mantissa == 53

Zero == <<>>

\* digit i of a number
Digit(a, i) == IF i <= Len(a) THEN a[i] ELSE 0

\* the longer one of two lengths
Longer(a, b) == IF Len(a) < Len(b) THEN Len(b) ELSE Len(a)

RECURSIVE Trim(_)
\* the digits without zeros at the high end
Trim(s) ==
  IF Len(s) > 0 /\ s[Len(s)] = 0 THEN Trim(SubSeq(s, 1, Len(s) - 1)) ELSE s

RECURSIVE Carry(_, _, _)
\* the digits of the number with the digit sums s: carries and borrows resolved,
\* a carry out of the highest digit sum makes further digits
Carry(s, i, c) ==
  IF i > Len(s)
  THEN (IF c > 0 THEN <<c % Base>> \o Carry(s, i + 1, c \div Base) ELSE <<>>)
  ELSE <<(s[i] + c) % Base>> \o Carry(s, i + 1, (s[i] + c) \div Base)

\* the exact sum
Plus(a, b) == Trim(Carry([i \in 1..Longer(a, b) |-> Digit(a, i) + Digit(b, i)], 1, 0))

\* the exact difference a - b when a >= b
Minus(a, b) == Trim(Carry([i \in 1..Longer(a, b) |-> Digit(a, i) - Digit(b, i)], 1, 0))

\* a < b
Less(a, b) ==
  \E i \in 1..Longer(a, b) :
    /\ Digit(a, i) < Digit(b, i)
    /\ \A j \in (i + 1)..Longer(a, b) : Digit(a, j) = Digit(b, j)

RECURSIVE BitLen(_)
\* the number of binary digits of a digit
BitLen(l) == IF l = 0 THEN 0 ELSE 1 + BitLen(l \div 2)

\* the number of binary digits of a number
Bits(n) ==
  IF Len(n) = 0 THEN 0 ELSE LimbBits * (Len(n) - 1) + BitLen(n[Len(n)])

\* the double nearest to an exact result: n rounded to Mantissa significant binary
\* digits, a tie going to the even one; sticky tells that the exact result lies
\* above n by less than one unit of the lowest digit
Round53(n, sticky) ==
  IF Bits(n) <= Mantissa THEN n
  ELSE LET s == Bits(n) - Mantissa
           k == s \div LimbBits + 1
           b == s % LimbBits
           low == IF b > 0 THEN n[k] % (2 ^ b) ELSE n[k - 1]
           half == IF b > 0 THEN 2 ^ (b - 1) ELSE Base \div 2
           below == IF b > 0 THEN k - 1 ELSE k - 2
           rest == sticky \/ \E j \in 1..below : n[j] # 0
           odd == (n[k] \div (2 ^ b)) % 2 = 1
           up == low > half \/ (low = half /\ (rest \/ odd))
           cut == [i \in 1..Len(n) |->
                     IF i < k THEN 0
                     ELSE IF i = k THEN n[k] - (n[k] % (2 ^ b)) ELSE n[i]]
       IN  IF up THEN Carry([cut EXCEPT ![k] = cut[k] + 2 ^ b], 1, 0) ELSE Trim(cut)

\* a + b of the code
Add(a, b) == Round53(Plus(a, b), FALSE)

\* a - b of the code, for a >= b
Sub(a, b) == Round53(Minus(a, b), FALSE)

RECURSIVE DivFrom(_, _, _, _)
\* long division by d from digit i down: <<remainder, digits of the quotient>>
DivFrom(n, d, i, r) ==
  IF i = 0 THEN <<r, <<>>>>
  ELSE LET v == r * Base + n[i]
           t == DivFrom(n, d, i - 1, v % d)
       IN  <<t[1], Append(t[2], v \div d)>>

\* a / d of the code for an integer d in 1..2047 and a quotient that is 0 or at
\* least 2^-18: the quotient is taken with one more digit at the low end, is
\* rounded, and has then 0 as that digit
Div(a, d) ==
  LET t == DivFrom(<<0>> \o a, d, Len(a) + 1, 0)
      q == Round53(Trim(t[2]), t[1] # 0)
  IN  SubSeq(q, 2, Len(q))

\* the integer c, below 2^30
Integer(c) == Trim(<<0, 0, 0, (c % (2 ^ 10)) * (2 ^ 10), c \div (2 ^ 10)>>)

\* the double nearest to n / d: the number that the decimal n / d denotes
Double(n, d) == Div(Integer(n), d)

\* the integer nearest to 100 times the number, the larger one of two, as a number
CentsOf(a) ==
  LET m == Carry([i \in 1..(IF Len(a) < 4 THEN 4 ELSE Len(a)) |->
                    Digit(a, i) * 100 + (IF i = 4 THEN 2 ^ 9 ELSE 0)],
                 1, 0)
  IN  Trim([i \in 1..Len(m) |->
              IF i < 4 THEN 0 ELSE IF i = 4 THEN m[4] - (m[4] % (2 ^ 10)) ELSE m[i]])

\* the amount of n cents: the double nearest to n / 100
Cents(n) == Double(n, 100)

\* the tolerance 0.01 of the comparisons  amount < 0.01, amount >= 0.01
Tolerance == Double(1, 100)

Min(a, b) == IF Less(a, b) THEN a ELSE b

\* mutation: the amount is not rounded
ToFixedLost(amount) == amount

\* Number(amount.toFixed(2)): toFixed gives the decimal with 2 digits nearest to
\* the value of the double, the larger one of two; Number gives its double
ToFixed2(amount) == Div(CentsOf(amount), 100)

(***************************************************************************)
(* Map<K, V> as a sequence of <<key, value>> pairs in insertion order.     *)
(***************************************************************************)
MapHas(m, k) == \E i \in 1..Len(m) : m[i][1] = k

MapIndex(m, k) == CHOOSE i \in 1..Len(m) : m[i][1] = k

MapGet(m, k) == m[MapIndex(m, k)][2]

MapSet(m, k, v) ==
  IF MapHas(m, k) THEN [m EXCEPT ![MapIndex(m, k)] = <<k, v>>]
  ELSE Append(m, <<k, v>>)

MapDelete(m, k) == SelectSeq(m, LAMBDA e : e[1] # k)

\* debtorMap.get(creditor) || 0, and pairwiseDebts.get(b)?.get(a) || 0
DebtOf(pd, debtor, creditor) ==
  IF MapHas(pd, debtor) /\ MapHas(MapGet(pd, debtor), creditor)
  THEN MapGet(MapGet(pd, debtor), creditor)
  ELSE Zero

\* the entries <<debtor, creditor>> of a ledger
Entries(pd) ==
  UNION {{<<pd[i][1], pd[i][2][j][1]>> : j \in 1..Len(pd[i][2])} : i \in 1..Len(pd)}

(***************************************************************************)
(* Step 1: pairwise debts.                                                 *)
(***************************************************************************)
\* mutation: the share replaces the amount of the pair instead of adding to it
addDebtOverwriting(pd, debtor, creditor, amount) ==
  LET pd1 == IF MapHas(pd, debtor) THEN pd ELSE MapSet(pd, debtor, <<>>)
  IN  MapSet(pd1, debtor, MapSet(MapGet(pd1, debtor), creditor, amount))

\* mutation: the payer owes the participant
addDebtReversed(pd, debtor, creditor, amount) ==
  LET pd1 == IF MapHas(pd, creditor) THEN pd ELSE MapSet(pd, creditor, <<>>)
      payerMap == MapGet(pd1, creditor)
      old == IF MapHas(payerMap, debtor) THEN MapGet(payerMap, debtor) ELSE Zero
  IN  MapSet(pd1, creditor, MapSet(payerMap, debtor, Add(old, amount)))

\* debtorMap.set(creditor, (debtorMap.get(creditor) || 0) + amount)
addDebt(pd, debtor, creditor, amount) ==
  LET pd1 == IF MapHas(pd, debtor) THEN pd ELSE MapSet(pd, debtor, <<>>)
      debtorMap == MapGet(pd1, debtor)
      old == IF MapHas(debtorMap, creditor) THEN MapGet(debtorMap, creditor) ELSE Zero
  IN  MapSet(pd1, debtor, MapSet(debtorMap, creditor, Add(old, amount)))

\* mutation: every participant owes the whole amount
splitAmountUndivided(t) == t.amount

\* t.amount / t.participants.length
splitAmount(t) == Div(t.amount, Len(t.participants))

\* mutation: the payer is not excluded
OwesShareAlways(participant, t) == TRUE

\* participant !== t.paid_by
OwesShare(participant, t) == participant # t.paid_by

RECURSIVE AddShares(_, _, _)
AddShares(pd, t, i) ==
  IF i > Len(t.participants) THEN pd
  ELSE AddShares(IF OwesShare(t.participants[i], t)
                 THEN addDebt(pd, t.participants[i], t.paid_by, splitAmount(t))
                 ELSE pd,
                 t, i + 1)

\* mutation: a transaction without participants empties the ledger
ProcessTransactionReset(pd, t) ==
  IF Len(t.participants) = 0 THEN <<>> ELSE AddShares(pd, t, 1)

\* the body of transactions.forEach for one transaction
ProcessTransaction(pd, t) ==
  IF Len(t.participants) = 0 THEN pd ELSE AddShares(pd, t, 1)

(***************************************************************************)
(* Step 2: consolidation of bidirectional debts, then removal of zeros.    *)
(***************************************************************************)
\* creditors.set(creditor, v) on the creditor map of a debtor
SetDebt(pd, debtor, creditor, v) ==
  MapSet(pd, debtor, MapSet(MapGet(pd, debtor), creditor, v))

\* a name of a participant is a string: the sequence of its UTF-16 code units
\* (the name A is <<65>>)
Letter == "A" :> 65 @@ "B" :> 66 @@ "C" :> 67 @@ "D" :> 68

Name(s) == <<Letter[s]>>

\* the code unit of the arrow (U+2192) of join
Arrow == 8594

\* a + arrow + b
Joined(a, b) == a \o <<Arrow>> \o b

\* the string u sorts before the string v: sort() compares code units
Precedes(u, v) ==
  \/ Len(u) < Len(v) /\ \A j \in 1..Len(u) : u[j] = v[j]
  \/ \E i \in 1..(IF Len(u) < Len(v) THEN Len(u) ELSE Len(v)) :
       u[i] < v[i] /\ \A j \in 1..(i - 1) : u[j] = v[j]

\* [debtorA, creditorB].sort().join(arrow): the two names in sorted order, joined
\* by the arrow; one key for both orders of a pair
pairKey(debtorA, creditorB) ==
  IF Precedes(creditorB, debtorA)
  THEN Joined(creditorB, debtorA)
  ELSE Joined(debtorA, creditorB)

\* mutation: the two directions are added instead of netted
netAmountAdded(amountAtoB, debtBtoA) == Add(amountAtoB, debtBtoA)

\* Math.abs(amountAtoB - debtBtoA)
netAmount(amountAtoB, debtBtoA) ==
  IF Less(amountAtoB, debtBtoA) THEN Sub(debtBtoA, amountAtoB)
  ELSE Sub(amountAtoB, debtBtoA)

\* the two set calls of a consolidation
NetPair(pd, debtorA, creditorB, amountAtoB, debtBtoA) ==
  LET net == netAmount(amountAtoB, debtBtoA)
      pd1 == SetDebt(pd, debtorA, creditorB,
                     IF Less(debtBtoA, amountAtoB) THEN net ELSE Zero)
  IN  IF MapHas(pd1, creditorB)
      THEN SetDebt(pd1, creditorB, debtorA,
                   IF Less(amountAtoB, debtBtoA) THEN net ELSE Zero)
      ELSE pd1

\* mutation: no pair is netted
ConsolidateEntrySkipped(pd, debtorA, creditorB, amountAtoB) == pd

\* the body of the inner forEach of Step 2 at entry j of debtor i
ConsolidateEntry(pd, debtorA, creditorB, amountAtoB) ==
  LET debtBtoA == DebtOf(pd, creditorB, debtorA)
  IN  IF Less(Zero, debtBtoA)
      THEN NetPair(pd, debtorA, creditorB, amountAtoB, debtBtoA)
      ELSE pd

\* processedPairs.has(pairKey)
IsProcessed(processedPairs, debtorA, creditorB) ==
  pairKey(debtorA, creditorB) \in processedPairs

RECURSIVE ConsolidateFrom(_, _, _, _)
ConsolidateFrom(pd, processedPairs, i, j) ==
  IF i > Len(pd) THEN pd
  ELSE IF j > Len(pd[i][2]) THEN ConsolidateFrom(pd, processedPairs, i + 1, 1)
  ELSE LET debtorA == pd[i][1]
           creditorB == pd[i][2][j][1]
           amountAtoB == pd[i][2][j][2]
       IN  IF IsProcessed(processedPairs, debtorA, creditorB)
           THEN ConsolidateFrom(pd, processedPairs, i, j + 1)
           ELSE ConsolidateFrom(ConsolidateEntry(pd, debtorA, creditorB, amountAtoB),
                                processedPairs \cup {pairKey(debtorA, creditorB)},
                                i, j + 1)

Consolidate(pd) == ConsolidateFrom(pd, {}, 1, 1)

\* the pairs that the forEach of Step 2 nets (debtBtoA > 0), in the order of the
\* iteration
RECURSIVE NettedFrom(_, _, _, _)
NettedFrom(pd, processedPairs, i, j) ==
  IF i > Len(pd) THEN <<>>
  ELSE IF j > Len(pd[i][2]) THEN NettedFrom(pd, processedPairs, i + 1, 1)
  ELSE LET debtorA == pd[i][1]
           creditorB == pd[i][2][j][1]
           amountAtoB == pd[i][2][j][2]
       IN  IF IsProcessed(processedPairs, debtorA, creditorB)
           THEN NettedFrom(pd, processedPairs, i, j + 1)
           ELSE (IF Less(Zero, DebtOf(pd, creditorB, debtorA))
                 THEN <<pairKey(debtorA, creditorB)>> ELSE <<>>)
                \o NettedFrom(ConsolidateEntry(pd, debtorA, creditorB, amountAtoB),
                              processedPairs \cup {pairKey(debtorA, creditorB)},
                              i, j + 1)

Netted(pd) == NettedFrom(pd, {}, 1, 1)

\* mutation: only negative amounts are removed
IsZeroDebtNegative(amount) == Less(amount, Zero)

\* amount < 0.01
IsZeroDebt(amount) == Less(amount, Tolerance)

\* creditors.forEach: delete the entries below the tolerance
RemoveZeroCreditors(creditors) == SelectSeq(creditors, LAMBDA e : ~IsZeroDebt(e[2]))

RECURSIVE RemoveZeroFrom(_, _)
RemoveZeroFrom(pd, i) ==
  IF i > Len(pd) THEN <<>>
  ELSE LET creditors == RemoveZeroCreditors(pd[i][2])
       IN  (IF Len(creditors) = 0 THEN <<>> ELSE <<<<pd[i][1], creditors>>>>)
           \o RemoveZeroFrom(pd, i + 1)

RemoveZeroDebts(pd) == RemoveZeroFrom(pd, 1)

(***************************************************************************)
(* Step 3: chains A -> B -> C.                                             *)
(***************************************************************************)
NoChain == [found |-> FALSE]

\* mutation: every chain is skipped
IsCycleAlways(debtorA, creditorC) == TRUE

\* creditorC === debtorA: the chain closes a cycle and is skipped
IsCycle(debtorA, creditorC) == creditorC = debtorA

transferAmount(amountAtoB, amountBtoC) == Min(amountAtoB, amountBtoC)

\* the innermost loop: the first creditor C of B that gives a chain
RECURSIVE FindCreditorC(_, _, _, _, _)
FindCreditorC(debtorA, intermediaryB, amountAtoB, creditorsOfB, k) ==
  IF k > Len(creditorsOfB) THEN NoChain
  ELSE LET creditorC == creditorsOfB[k][1]
           amountBtoC == creditorsOfB[k][2]
       IN  IF IsCycle(debtorA, creditorC)
           THEN FindCreditorC(debtorA, intermediaryB, amountAtoB, creditorsOfB, k + 1)
           ELSE IF Less(transferAmount(amountAtoB, amountBtoC), Tolerance)
           THEN FindCreditorC(debtorA, intermediaryB, amountAtoB, creditorsOfB, k + 1)
           ELSE [found |-> TRUE, debtorA |-> debtorA, intermediaryB |-> intermediaryB,
                 creditorC |-> creditorC, amountAtoB |-> amountAtoB,
                 amountBtoC |-> amountBtoC]

\* the two outer loops: the first chain in iteration order
RECURSIVE FindChainFrom(_, _, _)
FindChainFrom(pd, i, j) ==
  IF i > Len(pd) THEN NoChain
  ELSE IF j > Len(pd[i][2]) THEN FindChainFrom(pd, i + 1, 1)
  ELSE LET debtorA == pd[i][1]
           intermediaryB == pd[i][2][j][1]
           amountAtoB == pd[i][2][j][2]
           creditorsOfB == IF MapHas(pd, intermediaryB)
                           THEN MapGet(pd, intermediaryB) ELSE <<>>
           c == FindCreditorC(debtorA, intermediaryB, amountAtoB, creditorsOfB, 1)
       IN  IF c.found THEN c ELSE FindChainFrom(pd, i, j + 1)

FindChain(pd) == FindChainFrom(pd, 1, 1)

\* mutation: the reduced amount is not stored
ReduceDebtLost(pd, debtor, creditor, v) == pd

\* creditors.set(k, v); if (creditors.get(k) < 0.01) creditors.delete(k)
ReduceDebt(pd, debtor, creditor, v) ==
  IF IsZeroDebt(v)
  THEN MapSet(pd, debtor, MapDelete(MapGet(pd, debtor), creditor))
  ELSE SetDebt(pd, debtor, creditor, v)

\* mutation: a debtor without creditors stays in the ledger
DeleteIfEmptyNever(pd, debtor) == pd

\* if (creditors.size === 0) pairwiseDebts.delete(debtor)
DeleteIfEmpty(pd, debtor) ==
  IF MapHas(pd, debtor) /\ Len(MapGet(pd, debtor)) = 0
  THEN MapDelete(pd, debtor) ELSE pd

\* mutation: the legs are reduced, the transfer onto A owes C is lost
CollapseChainUntransferred(pd, c) ==
  LET t == transferAmount(c.amountAtoB, c.amountBtoC)
      pd2 == ReduceDebt(pd, c.debtorA, c.intermediaryB, Sub(c.amountAtoB, t))
      pd3 == ReduceDebt(pd2, c.intermediaryB, c.creditorC, Sub(c.amountBtoC, t))
  IN  DeleteIfEmpty(DeleteIfEmpty(pd3, c.debtorA), c.intermediaryB)

\* the body of the chain transfer
CollapseChain(pd, c) ==
  LET t == transferAmount(c.amountAtoB, c.amountBtoC)
      pd1 == addDebt(pd, c.debtorA, c.creditorC, t)
      pd2 == ReduceDebt(pd1, c.debtorA, c.intermediaryB, Sub(c.amountAtoB, t))
      pd3 == ReduceDebt(pd2, c.intermediaryB, c.creditorC, Sub(c.amountBtoC, t))
  IN  DeleteIfEmpty(DeleteIfEmpty(pd3, c.debtorA), c.intermediaryB)

(***************************************************************************)
(* Step 4: the Debt array.                                                 *)
(***************************************************************************)
\* amount >= 0.01
IsEmitted(amount) == ~Less(amount, Tolerance)

Debt(from, to, amount) == [from |-> from, to |-> to, amount |-> ToFixed2(amount)]

RECURSIVE DebtsOfCreditors(_, _, _)
DebtsOfCreditors(debtor, creditors, j) ==
  IF j > Len(creditors) THEN <<>>
  ELSE (IF IsEmitted(creditors[j][2])
        THEN <<Debt(debtor, creditors[j][1], creditors[j][2])>> ELSE <<>>)
       \o DebtsOfCreditors(debtor, creditors, j + 1)

RECURSIVE MaterializeFrom(_, _)
MaterializeFrom(pd, i) ==
  IF i > Len(pd) THEN <<>>
  ELSE DebtsOfCreditors(pd[i][1], pd[i][2], 1) \o MaterializeFrom(pd, i + 1)

Materialize(pd) == MaterializeFrom(pd, 1)

(***************************************************************************)
(* Inputs.                                                                 *)
(***************************************************************************)
Names == <<Name("A"), Name("B"), Name("C"), Name("D")>>

\* the names at the positions S, in the order of Names
RECURSIVE SubList(_, _)
SubList(S, i) ==
  IF i > Len(Names) THEN <<>>
  ELSE (IF i \in S THEN <<Names[i]>> ELSE <<>>) \o SubList(S, i + 1)

Transaction(paid_by, amount, participants) ==
  [paid_by |-> paid_by, amount |-> amount, participants |-> participants]

\* three participants, every participant list (the empty one too), any payer
SplitKinds(amounts) ==
  {Transaction(Names[p], a, SubList(S, 1)) :
     p \in 1..3, a \in amounts, S \in SUBSET (1..3)}

\* the amount 0, where every share is 0, and the payer paying 0.02 for nobody else
ZeroKinds ==
  SplitKinds({Cents(0)})
    \cup {Transaction(Names[p], Cents(2), <<Names[p]>>) : p \in 1..3}

\* the amounts 0.02 and 0.04: shares below 0.01 and shares of thirds of a cent
SmallKinds == SplitKinds({Cents(2), Cents(4)})

\* the amount 90: the shares 90, 45 and 30
WholeKinds == SplitKinds({Cents(9000)})

\* two participants and the amount 0.05: the shares 0.05 and 0.025
HalfCentKinds ==
  {Transaction(Names[p], Cents(5), SubList(S, 1)) : p \in 1..2, S \in SUBSET (1..2)}

\* the payer pays for one other participant: 60 or 90 among A, B and C,
\* 60 when D takes part
WideKinds ==
  {Transaction(Names[k[1]], k[3], <<Names[k[2]]>>) :
     k \in {q \in (1..4) \X (1..4) \X {Cents(6000), Cents(9000)} :
              /\ q[1] # q[2]
              /\ (q[1] = 4 \/ q[2] = 4) => q[3] = Cents(6000)}}

\* the chain example of the specification: A pays 90 for A and B, B pays 60
\* for B and C
ChainExample ==
  <<Transaction(Name("A"), Cents(9000), <<Name("A"), Name("B")>>),
    Transaction(Name("B"), Cents(6000), <<Name("B"), Name("C")>>)>>

\* one participant owes the payer 0.02, 0.03 or 90: differences of 0.01, sums
\* and differences that are rounded
CentKinds ==
  {Transaction(Names[p], a, <<Names[q]>>) :
     p \in 1..3, q \in 1..3, a \in {Cents(2), Cents(3), Cents(9000)}}

\* 0.05 among four participants: the share 0.0125
QuarterKinds == {Transaction(Names[p], Cents(5), SubList(1..4, 1)) : p \in 1..4}

\* names that contain the arrow of the pair keys: the pair of A and B+arrow+C and
\* the pair of A+arrow+B and C have the same key
ArrowNames == {Joined(Name("A"), Name("B")), Joined(Name("B"), Name("C"))}

ArrowPairs ==
  {<<Name("A"), Joined(Name("B"), Name("C"))>>, <<Joined(Name("B"), Name("C")), Name("A")>>,
   <<Joined(Name("A"), Name("B")), Name("C")>>, <<Name("C"), Joined(Name("A"), Name("B"))>>}

\* the payer pays 60 or 90 for the other one of such a pair
ArrowKinds ==
  {Transaction(k[1][1], k[2], <<k[1][2]>>) : k \in ArrowPairs \X {Cents(6000), Cents(9000)}}

Lists(kinds, n) == UNION {[1..m -> kinds] : m \in 0..n}

Inputs ==
  Lists(ZeroKinds, MaxTx) \cup Lists(SmallKinds, MaxTx) \cup Lists(WholeKinds, MaxTx)
    \cup Lists(HalfCentKinds, MaxTx) \cup Lists(CentKinds, MaxTx)
    \cup Lists(QuarterKinds, MaxTx)
    \cup Lists(WideKinds, MaxTxWide) \cup Lists(ArrowKinds, MaxTxWide) \cup {ChainExample}

(***************************************************************************)
(* The transactions cache (lines 1-110): its values.  A value that may be  *)
(* null is a sequence of length 0 (null) or 1.                             *)
(***************************************************************************)
Null == <<>>

Some(v) == <<v>>

\* the rows of the table
Rows == {"t1"}

\* the lists of rows that the backend or an updater can produce
DataValues == UNION {[1..m -> Rows] : m \in 0..MaxRows}

\* error.message of a failed query
Messages == {"failed"}

\* the callbacks that components pass to subscribeToTransactions
Callbacks == {"cb1", "cb2"}

\* a backend query that has not been started
NotStarted == [status |-> "none", data |-> <<>>, error |-> Null, current |-> FALSE]

\* const cache = {data: null, loading: false, error: null, promise: null}, no
\* subscriber, no query
CacheStarted ==
  /\ cache = [data |-> Null, loading |-> FALSE, error |-> Null, promise |-> Null]
  /\ subscribers = {}
  /\ loads = [k \in 1..MaxLoads |-> NotStarted]
  /\ returned = Null
  /\ called = [cb \in Callbacks |-> 0]
  /\ unsubscribed = {}

(***************************************************************************)
(* The state machine: one invocation of simplifyDebts per call.            *)
(***************************************************************************)
Calls == {1, 2}

\* one ledger for all calls
SlotShared(c) == 1

\* const pairwiseDebts = new Map(): every call builds its own ledger
Slot(c) == c

Ledger(c) == pairwiseDebts[Slot(c)]

Started(calls) ==
  /\ pc = [c \in Calls |-> IF c \in calls THEN "step1" ELSE "idle"]
  /\ idx = [c \in Calls |-> 1]
  /\ pairwiseDebts = [c \in Calls |-> <<>>]
  /\ chainsFound = [c \in Calls |-> 0]
  /\ result = [c \in Calls |-> <<>>]

Init ==
  /\ transactions \in Inputs
  /\ Started({1})
  /\ CacheStarted
  /\ environment = TRUE

\* one iteration of transactions.forEach
Step1(c) ==
  /\ pc[c] = "step1"
  /\ idx[c] <= Len(transactions)
  /\ pairwiseDebts' = [pairwiseDebts EXCEPT
                         ![Slot(c)] = ProcessTransaction(Ledger(c), transactions[idx[c]])]
  /\ idx' = [idx EXCEPT ![c] = idx[c] + 1]
  /\ UNCHANGED <<transactions, pc, chainsFound, result, cacheVars>>

\* Step 2, the first pairwiseDebts.forEach: consolidation
Step2(c) ==
  /\ pc[c] = "step1"
  /\ idx[c] > Len(transactions)
  /\ pairwiseDebts' = [pairwiseDebts EXCEPT ![Slot(c)] = Consolidate(Ledger(c))]
  /\ pc' = [pc EXCEPT ![c] = "cleanup"]
  /\ UNCHANGED <<transactions, idx, chainsFound, result, cacheVars>>

\* Step 2, the second pairwiseDebts.forEach: remove zero debts
Cleanup(c) ==
  /\ pc[c] = "cleanup"
  /\ pairwiseDebts' = [pairwiseDebts EXCEPT ![Slot(c)] = RemoveZeroDebts(Ledger(c))]
  /\ pc' = [pc EXCEPT ![c] = "step3"]
  /\ UNCHANGED <<transactions, idx, chainsFound, result, cacheVars>>

\* one iteration of while (simplified) that finds a chain
Step3(c) ==
  /\ pc[c] = "step3"
  /\ FindChain(Ledger(c)).found
  /\ chainsFound[c] < MaxChains
  /\ pairwiseDebts' = [pairwiseDebts EXCEPT
                         ![Slot(c)] = CollapseChain(Ledger(c), FindChain(Ledger(c)))]
  /\ chainsFound' = [chainsFound EXCEPT ![c] = chainsFound[c] + 1]
  /\ UNCHANGED <<transactions, pc, idx, result, cacheVars>>

\* the last iteration of while (simplified), then Step 4 and the return
Step4(c) ==
  /\ pc[c] = "step3"
  /\ ~FindChain(Ledger(c)).found
  /\ result' = [result EXCEPT ![c] = Materialize(Ledger(c))]
  /\ pc' = [pc EXCEPT ![c] = "done"]
  /\ UNCHANGED <<transactions, idx, pairwiseDebts, chainsFound, cacheVars>>

Next == \E c \in Calls : Step1(c) \/ Step2(c) \/ Cleanup(c) \/ Step3(c) \/ Step4(c)

Spec == Init /\ [][Next]_vars

\* the transaction lists handed to two invocations at once
PairInputs == Lists(WideKinds, MaxTxPair) \cup {ChainExample}

\* two invocations on the same transaction list, their steps interleaved in any way
InitPair ==
  /\ transactions \in PairInputs
  /\ Started(Calls)
  /\ CacheStarted
  /\ environment = TRUE

SpecPair == InitPair /\ [][Next]_vars

(***************************************************************************)
(* The transactions cache: its operations.  JavaScript runs every call,    *)
(* and the continuation of loadData after its await, to completion; each   *)
(* is one step.                                                            *)
(***************************************************************************)
\* a backend query and the promise of its loadData; current records that
\* invalidateTransactionsCache has not been called since the query started
Load(status, data, error, current) ==
  [status |-> status, data |-> data, error |-> error, current |-> current]

\* what the backend answers to a query: {data, error}
Answers ==
  {[data |-> Some(d), error |-> Null] : d \in DataValues}
    \cup {[data |-> Null, error |-> Null]}
    \cup {[data |-> Null, error |-> Some(m)] : m \in Messages}

\* the functions passed to updateTransactionsCache
Updaters == {"keep", "clear", "add"}

\* updater(prev)
Apply(updater, prev) ==
  IF updater = "clear" THEN <<>>
  ELSE IF updater = "add" /\ Len(prev) < MaxRows
  THEN <<CHOOSE r \in Rows : TRUE>> \o prev
  ELSE prev

\* a returned promise: it settles as the promise of a load, or it is
\* Promise.resolve(data)
SettlesAs(k) == [kind |-> "load", load |-> k, data |-> <<>>]

Resolved(data) == [kind |-> "value", load |-> 0, data |-> data]

\* the promise of an async function whose body threw: rejected
Rejected == [kind |-> "rejected", load |-> 0, data |-> <<>>]

\* getSupabaseClient() throws 'Missing Supabase environment variables': no
\* client was ever created and a variable is missing
getSupabaseClientThrows == ~environment

\* the queries in flight
InFlight == {k \in 1..MaxLoads : loads[k].status = "pending"}

\* the queries started so far
StartedLoads == {k \in 1..MaxLoads : loads[k].status # "none"}

\* mutation: nobody is called
notifyNobody(times) == [cb \in Callbacks |-> 0]

\* notifySubscribers, called times times in one step
notifySubscribers(times) ==
  [cb \in Callbacks |-> IF cb \in subscribers THEN times ELSE 0]

\* the assignments of invalidateTransactionsCache
Invalidated(c) ==
  [c EXCEPT !.data = Null, !.loading = FALSE, !.error = Null, !.promise = Null]

\* the queries, none of them current any more
Outdated(ls) == [k \in 1..MaxLoads |-> [ls[k] EXCEPT !.current = FALSE]]

\* the body of fetchTransactions, run on the cache c and the queries ls
FetchFrom(c, ls) ==
  IF c.promise # Null
  THEN /\ cache' = c
       /\ loads' = ls
       /\ returned' = Some(SettlesAs(c.promise[1]))
       /\ called' = notifySubscribers(0)
  ELSE IF c.data # Null
  THEN /\ cache' = c
       /\ loads' = ls
       /\ returned' = Some(Resolved(c.data[1]))
       /\ called' = notifySubscribers(0)
  ELSE IF getSupabaseClientThrows
  THEN /\ cache' = [c EXCEPT !.loading = TRUE, !.error = Null]
       /\ loads' = ls
       /\ returned' = Some(Rejected)
       /\ called' = notifySubscribers(1)
  ELSE /\ Cardinality(StartedLoads) < MaxLoads
       /\ LET k == Cardinality(StartedLoads) + 1
          IN  /\ cache' = [c EXCEPT !.loading = TRUE, !.error = Null, !.promise = Some(k)]
              /\ loads' = [ls EXCEPT ![k] = Load("pending", <<>>, Null, TRUE)]
              /\ returned' = Some(SettlesAs(k))
       /\ called' = notifySubscribers(1)

fetchTransactions ==
  /\ FetchFrom(cache, loads)
  /\ UNCHANGED <<subscribers, unsubscribed, engineVars, environment>>

reloadTransactions ==
  /\ FetchFrom(Invalidated(cache), Outdated(loads))
  /\ UNCHANGED <<subscribers, unsubscribed, engineVars, environment>>

invalidateTransactionsCache ==
  /\ cache' = Invalidated(cache)
  /\ loads' = Outdated(loads)
  /\ returned' = Null
  /\ called' = notifySubscribers(0)
  /\ UNCHANGED <<subscribers, unsubscribed, engineVars, environment>>

updateTransactionsCache(updater) ==
  /\ IF cache.data = Null
     THEN /\ UNCHANGED cache
          /\ called' = notifySubscribers(0)
     ELSE /\ cache' = [cache EXCEPT !.data = Some(Apply(updater, cache.data[1]))]
          /\ called' = notifySubscribers(1)
  /\ returned' = Null
  /\ UNCHANGED <<loads, subscribers, unsubscribed, engineVars, environment>>

\* the continuation of loadData of query k after its await, with the finally block
loadDataCompletes(k, answer) ==
  /\ loads[k].status = "pending"
  /\ IF answer.error # Null
     THEN /\ cache' = [cache EXCEPT !.error = answer.error, !.data = Some(<<>>),
                                    !.loading = FALSE, !.promise = Null]
          /\ loads' = [loads EXCEPT ![k] = Load("rejected", <<>>, answer.error,
                                                  loads[k].current)]
     ELSE LET data == IF answer.data = Null THEN <<>> ELSE answer.data[1]
          IN  /\ cache' = [cache EXCEPT !.data = Some(data),
                                        !.loading = FALSE, !.promise = Null]
              /\ loads' = [loads EXCEPT ![k] = Load("fulfilled", data, Null,
                                                      loads[k].current)]
  /\ returned' = Null
  /\ called' = notifySubscribers(1)
  /\ UNCHANGED <<subscribers, unsubscribed, engineVars, environment>>

subscribeToTransactions(callback) ==
  /\ subscribers' = subscribers \cup {callback}
  /\ unsubscribed' = unsubscribed \ {callback}
  /\ returned' = Null
  /\ called' = notifySubscribers(0)
  /\ UNCHANGED <<cache, loads, engineVars, environment>>

\* the function that subscribeToTransactions returned for callback
Unsubscribe(callback) ==
  /\ callback \in subscribers \cup unsubscribed
  /\ subscribers' = subscribers \ {callback}
  /\ unsubscribed' = unsubscribed \cup {callback}
  /\ returned' = Null
  /\ called' = notifySubscribers(0)
  /\ UNCHANGED <<cache, loads, engineVars, environment>>

CacheInit ==
  /\ transactions = <<>>
  /\ Started({})
  /\ CacheStarted
  /\ environment \in BOOLEAN

CacheNext ==
  \/ fetchTransactions
  \/ reloadTransactions
  \/ invalidateTransactionsCache
  \/ \E updater \in Updaters : updateTransactionsCache(updater)
  \/ \E k \in 1..MaxLoads : \E answer \in Answers : loadDataCompletes(k, answer)
  \/ \E callback \in Callbacks : subscribeToTransactions(callback)
  \/ \E callback \in Callbacks : Unsubscribe(callback)

CacheSpec == CacheInit /\ [][CacheNext]_vars

(***************************************************************************)
(* simplifyDebts as a function of the transaction list: the composition of *)
(* the four steps.                                                         *)
(***************************************************************************)
RECURSIVE AccumulateFrom(_, _, _)
AccumulateFrom(pd, txs, i) ==
  IF i > Len(txs) THEN pd
  ELSE AccumulateFrom(ProcessTransaction(pd, txs[i]), txs, i + 1)

RECURSIVE CollapseAll(_)
CollapseAll(pd) ==
  IF FindChain(pd).found THEN CollapseAll(CollapseChain(pd, FindChain(pd))) ELSE pd

simplifyDebts(txs) ==
  Materialize(CollapseAll(RemoveZeroDebts(Consolidate(AccumulateFrom(<<>>, txs, 1)))))

(***************************************************************************)
(* Quantities the properties are stated with.                              *)
(***************************************************************************)
Done(c) == pc[c] = "done"

People == {Names[i] : i \in 1..Len(Names)} \cup ArrowNames

RECURSIVE SumOver(_, _)
\* the sum of f[i] for i in S
SumOver(f, S) ==
  IF S = {} THEN 0
  ELSE LET i == CHOOSE x \in S : TRUE IN f[i] + SumOver(f, S \ {i})

RECURSIVE SumExact(_, _)
\* the exact sum of the numbers f[i] for i in S
SumExact(f, S) ==
  IF S = {} THEN Zero
  ELSE LET i == CHOOSE x \in S : TRUE IN Plus(f[i], SumExact(f, S \ {i}))

\* a >= b
AtLeast(a, b) == ~Less(a, b)

\* the balances of the properties are integers: an amount that is a decimal with
\* 2 digits (every input amount, every output amount) counts UnitsPerCent units
\* per cent, so that halves, thirds and quarters of a cent are integers
UnitsPerCent == 3 * 4

\* the integer that a number below 2^30 without a fraction is
IntegerOf(m) == Digit(m, 4) \div (2 ^ 10) + Digit(m, 5) * (2 ^ 10)

Units(amount) == IntegerOf(CentsOf(amount)) * UnitsPerCent

\* share = amount / |participants| of a transaction that has participants, as a
\* real number
Share(t) ==
  IF Len(t.participants) = 0 THEN 0 ELSE Units(t.amount) \div Len(t.participants)

Members(t) == {t.participants[i] : i \in 1..Len(t.participants)}

\* what the others owe P for the transactions P paid, minus the shares P consumed
\* of the transactions of other payers
RawBalance(P, txs) ==
  SumOver([i \in 1..Len(txs) |->
             IF txs[i].paid_by = P
             THEN Share(txs[i]) * Cardinality(Members(txs[i]) \ {P})
             ELSE IF P \in Members(txs[i]) THEN 0 - Share(txs[i]) ELSE 0],
          1..Len(txs))

\* the debts of the list res to P minus the debts from P
OutputBalance(P, res) ==
  SumOver([i \in 1..Len(res) |->
             IF res[i].to = P THEN Units(res[i].amount)
             ELSE IF res[i].from = P THEN 0 - Units(res[i].amount) ELSE 0],
          1..Len(res))

\* one unit of currency (1.00)
Whole == 100 * UnitsPerCent

\* every share is a whole number of currency units
WholeShares(txs) == \A i \in 1..Len(txs) : Share(txs[i]) % Whole = 0

\* 2^53: every whole number below it is a double, so that the sums and differences
\* of whole numbers below it are exact in the code's arithmetic
TwoTo53 == <<0, 0, 0, 0, 0, 0, 8>>

\* the amounts of the list sum to less than 2^53
ExactSums(txs) ==
  Less(SumExact([i \in 1..Len(txs) |-> txs[i].amount], 1..Len(txs)), TwoTo53)

Unsettled(txs) == {P \in People : RawBalance(P, txs) # 0}

RECURSIVE MaxZeroGroups(_, _)
\* the most groups of zero total balance that S splits into (S has total 0)
MaxZeroGroups(S, txs) ==
  IF S = {} THEN 0
  ELSE LET x == CHOOSE y \in S : TRUE
           groups == {T \in SUBSET S :
                        /\ x \in T
                        /\ SumOver([P \in T |-> RawBalance(P, txs)], T) = 0}
           counts == {1 + MaxZeroGroups(S \ T, txs) : T \in groups}
       IN  CHOOSE n \in counts : \A k \in counts : k <= n

\* a group of n participants of total balance 0 settles in n - 1 transfers
MinTransfers(txs) == Cardinality(Unsettled(txs)) - MaxZeroGroups(Unsettled(txs), txs)

C2_MinimalAsStated ==
  (Done(1) /\ WholeShares(transactions)) => Len(result[1]) = MinTransfers(transactions)

(***************************************************************************)
(* C3, as stated: the output holds at most one entry between any two       *)
(* participants, never both X to Y and Y to X.                             *)
(***************************************************************************)
C3_ConsolidatedAsStated ==
  Done(1) => \A i, j \in 1..Len(result[1]) :
               i # j => {result[1][i].from, result[1][i].to}
                          # {result[1][j].from, result[1][j].to}

(***************************************************************************)
(* C4: in every state of a call no ledger entry has its debtor as its      *)
(* creditor, and no entry of the output has from = to.                     *)
(***************************************************************************)
C4_NoSelfDebt ==
  /\ \A e \in Entries(Ledger(1)) : e[1] # e[2]
  /\ \A i \in 1..Len(result[1]) : result[1][i].from # result[1][i].to

\* Step 3 at a ledger that holds both X owes Y and Y owes X: every chain through
\* the two entries closes a cycle and is skipped
C4_Witness ==
  /\ pc[1] = "step3"
  /\ \E e \in Entries(Ledger(1)) : <<e[2], e[1]>> \in Entries(Ledger(1))

C6_OutputAmounts ==
  Done(1) => \A i \in 1..Len(result[1]) :
               /\ AtLeast(result[1][i].amount, Tolerance)
               /\ result[1][i].amount = Div(CentsOf(result[1][i].amount), 100)
               /\ AtLeast(DebtOf(Ledger(1), result[1][i].from, result[1][i].to), Tolerance)

\* a returned call whose ledger held an entry that is no multiple of 0.01 and was
\* emitted rounded
C6_Witness ==
  /\ Done(1)
  /\ \E i \in 1..Len(Ledger(1)) : \E j \in 1..Len(Ledger(1)[i][2]) :
       /\ Ledger(1)[i][2][j][2] # Div(CentsOf(Ledger(1)[i][2][j][2]), 100)
       /\ AtLeast(Ledger(1)[i][2][j][2], Tolerance)
  /\ Len(result[1]) >= 1

(***************************************************************************)
(* Orderings.  Every ordering of a list is reached from any other one by   *)
(* exchanging neighbours, and the lists of Inputs come with all their      *)
(* orderings (the chain example has two transactions).  A quantity that no *)
(* exchange of two neighbours changes, on every input, is therefore the    *)
(* same for any two orderings of the same transactions.                    *)
(***************************************************************************)
\* txs with the transactions at k and k + 1 exchanged
Exchanged(txs, k) ==
  [i \in 1..Len(txs) |-> IF i = k THEN txs[k + 1] ELSE IF i = k + 1 THEN txs[k] ELSE txs[i]]

\* what X owes Y in the list res minus what Y owes X
PairBalance(X, Y, res) ==
  SumOver([i \in 1..Len(res) |->
             IF res[i].from = X /\ res[i].to = Y THEN Units(res[i].amount)
             ELSE IF res[i].from = Y /\ res[i].to = X THEN 0 - Units(res[i].amount)
             ELSE 0],
          1..Len(res))

C8_DeterminismAndPurity ==
  /\ [](\A c \in Calls : Done(c) => result[c] = simplifyDebts(transactions))
  /\ []((Done(1) /\ Done(2)) => result[1] = result[2])
  /\ [][transactions' = transactions]_vars

\* both invocations have returned, each after collapsing a chain, with two debts
C8_Witness ==
  /\ Done(1)
  /\ Done(2)
  /\ chainsFound[1] >= 1
  /\ chainsFound[2] >= 1
  /\ Len(result[2]) >= 2

(***************************************************************************)
(* C9, as stated: for [A pays 90 for {A, B}; B pays 60 for {B, C}] the     *)
(* call returns exactly the debts B owes A 45 and C owes B 30.             *)
(***************************************************************************)
C9_ExampleAsStated ==
  (Done(1) /\ transactions = ChainExample)
    => /\ Len(result[1]) = 2
       /\ {result[1][i] : i \in 1..2}
            = {[from |-> Name("B"), to |-> Name("A"), amount |-> Cents(4500)],
               [from |-> Name("C"), to |-> Name("B"), amount |-> Cents(3000)]}

(***************************************************************************)
(* C9, amended: for [A pays 90 for {A, B}; B pays 60 for {B, C}] the call  *)
(* returns the debts B owes A 15 and C owes A 30, in this order: C owes B  *)
(* 30 and B owes A 45 form a chain, which Step 3 collapses.                *)
(***************************************************************************)
C9_ExampleCollapsed ==
  (Done(1) /\ transactions = ChainExample)
    => result[1] = <<[from |-> Name("B"), to |-> Name("A"), amount |-> Cents(1500)],
                     [from |-> Name("C"), to |-> Name("A"), amount |-> Cents(3000)]>>

\* the call on the example has returned, after collapsing one chain
C9_Witness ==
  /\ Done(1)
  /\ transactions = ChainExample
  /\ chainsFound[1] = 1

(***************************************************************************)
(* Chains.  The ledger after Phase 2 is the ledger that Step 3 starts      *)
(* from: the pairwise debts, consolidated, without the amounts below 0.01. *)
(***************************************************************************)
AfterPhase2(txs) == RemoveZeroDebts(Consolidate(AccumulateFrom(<<>>, txs, 1)))

\* the ledger consists exactly of X owes Y and Y owes Z
IsChainLedger(pd, X, Y, Z) ==
  /\ X # Y /\ Y # Z /\ X # Z
  /\ Len(pd) = 2
  /\ Entries(pd) = {<<X, Y>>, <<Y, Z>>}

\* the set of the debts of a list, when no debt occurs twice in it
DebtSet(res) == {res[i] : i \in 1..Len(res)}

NoRepeat(res) == Cardinality(DebtSet(res)) = Len(res)

\* a - b, as the program computes it, is at least 0.01
Exceeds(a, b) == Less(b, a) /\ AtLeast(Sub(a, b), Tolerance)

(***************************************************************************)
(* C10, as stated: when the ledger after Phase 2 consists exactly of X     *)
(* owes Y x and Y owes Z y, the output is X owes Z min(x, y) plus X owes Y *)
(* x - y if x > y, or Y owes Z y - x if y > x, and nothing else.           *)
(***************************************************************************)
C10_ChainCollapseAsStated ==
  Done(1) =>
    LET pd == AfterPhase2(transactions)
    IN  \A X, Y, Z \in People :
          IsChainLedger(pd, X, Y, Z) =>
            LET x == DebtOf(pd, X, Y)
                y == DebtOf(pd, Y, Z)
            IN  /\ NoRepeat(result[1])
                /\ DebtSet(result[1])
                     = {[from |-> X, to |-> Z, amount |-> Min(x, y)]}
                         \cup (IF Less(y, x)
                               THEN {[from |-> X, to |-> Y, amount |-> Sub(x, y)]}
                               ELSE {})
                         \cup (IF Less(x, y)
                               THEN {[from |-> Y, to |-> Z, amount |-> Sub(y, x)]}
                               ELSE {})

(***************************************************************************)
(* C10, amended: in that case the output is X owes Z min(x, y) rounded to  *)
(* 2 decimals plus, if x - y >= 0.01, X owes Y x - y rounded to 2          *)
(* decimals, or, if y - x >= 0.01, Y owes Z y - x rounded to 2 decimals,   *)
(* and nothing else.                                                       *)
(***************************************************************************)
C10_ChainCollapseRounded ==
  Done(1) =>
    LET pd == AfterPhase2(transactions)
    IN  \A X, Y, Z \in People :
          IsChainLedger(pd, X, Y, Z) =>
            LET x == DebtOf(pd, X, Y)
                y == DebtOf(pd, Y, Z)
            IN  /\ NoRepeat(result[1])
                /\ DebtSet(result[1])
                     = {[from |-> X, to |-> Z, amount |-> ToFixed2(Min(x, y))]}
                         \cup (IF Exceeds(x, y)
                               THEN {[from |-> X, to |-> Y, amount |-> ToFixed2(Sub(x, y))]}
                               ELSE {})
                         \cup (IF Exceeds(y, x)
                               THEN {[from |-> Y, to |-> Z, amount |-> ToFixed2(Sub(y, x))]}
                               ELSE {})

\* a returned call whose ledger after Phase 2 was a chain with a longer first leg
C10_Witness ==
  /\ Done(1)
  /\ Len(result[1]) = 2
  /\ LET pd == AfterPhase2(transactions)
     IN  \E X, Y, Z \in People :
           /\ IsChainLedger(pd, X, Y, Z)
           /\ Less(DebtOf(pd, Y, Z), DebtOf(pd, X, Y))

(***************************************************************************)
(* Single transactions.                                                    *)
(***************************************************************************)
\* the input is one transaction with participants
IsSingle(txs) == Len(txs) = 1 /\ Len(txs[1].participants) >= 1

\* the members of S other than the payer
Debtors(t) == Members(t) \ {t.paid_by}

(***************************************************************************)
(* C11, as stated: for one transaction with payer P, amount a and          *)
(* non-empty participants S the output is exactly one debt from each       *)
(* member of S other than P to P, each of amount a / |S| (when that share  *)
(* is at least 0.01), also when P is not in S; it is empty when S = {P}.   *)
(***************************************************************************)
C11_SingleAsStated ==
  (Done(1) /\ IsSingle(transactions)) =>
    LET t == transactions[1]
    IN  /\ NoRepeat(result[1])
        /\ DebtSet(result[1])
             = IF AtLeast(Div(t.amount, Len(t.participants)), Tolerance)
               THEN {[from |-> p, to |-> t.paid_by,
                      amount |-> Div(t.amount, Len(t.participants))] : p \in Debtors(t)}
               ELSE {}

(***************************************************************************)
(* C11, amended: the output is exactly one debt from each member of S      *)
(* other than P to P, each of amount a / |S| rounded to 2 decimals, when   *)
(* that share is at least 0.01, and is empty when it is not; also when P   *)
(* is not in S; it is empty when S = {P}.                                  *)
(***************************************************************************)
C11_SingleRounded ==
  (Done(1) /\ IsSingle(transactions)) =>
    LET t == transactions[1]
    IN  /\ NoRepeat(result[1])
        /\ DebtSet(result[1])
             = IF AtLeast(Div(t.amount, Len(t.participants)), Tolerance)
               THEN {[from |-> p, to |-> t.paid_by,
                      amount |-> ToFixed2(Div(t.amount, Len(t.participants)))] :
                       p \in Debtors(t)}
               ELSE {}

\* a returned call on one transaction whose payer is no participant and whose
\* two participants each owe the payer
C11_Witness ==
  /\ Done(1)
  /\ IsSingle(transactions)
  /\ transactions[1].paid_by \notin Members(transactions[1])
  /\ Len(result[1]) = 2

(***************************************************************************)
(* Two participants.                                                       *)
(***************************************************************************)
\* the ledger after Phase 1: the accumulated pairwise debts
AfterPhase1(txs) == AccumulateFrom(<<>>, txs, 1)

\* every payer and every participant of txs is A or B
InvolvesOnly(txs, A, B) ==
  \A i \in 1..Len(txs) : txs[i].paid_by \in {A, B} /\ Members(txs[i]) \subseteq {A, B}

(***************************************************************************)
(* C12, as stated: for a list that involves only two participants A and B  *)
(* the output is empty when the accumulated totals A owes B and B owes A   *)
(* differ by less than 0.01, and otherwise is the single debt of the       *)
(* absolute difference from the one who owed more to the one who owed      *)
(* less.                                                                   *)
(***************************************************************************)
C12_TwoPartyAsStated ==
  Done(1) =>
    \A A, B \in People :
      (A # B /\ InvolvesOnly(transactions, A, B)) =>
        LET AowesB == DebtOf(AfterPhase1(transactions), A, B)
            BowesA == DebtOf(AfterPhase1(transactions), B, A)
        IN  result[1] =
              IF ~Exceeds(AowesB, BowesA) /\ ~Exceeds(BowesA, AowesB) THEN <<>>
              ELSE IF Less(BowesA, AowesB)
              THEN <<[from |-> A, to |-> B, amount |-> Sub(AowesB, BowesA)]>>
              ELSE <<[from |-> B, to |-> A, amount |-> Sub(BowesA, AowesB)]>>

(***************************************************************************)
(* C12, amended: the single debt is of the absolute difference rounded to  *)
(* 2 decimals.                                                             *)
(***************************************************************************)
C12_TwoPartyRounded ==
  Done(1) =>
    \A A, B \in People :
      (A # B /\ InvolvesOnly(transactions, A, B)) =>
        LET AowesB == DebtOf(AfterPhase1(transactions), A, B)
            BowesA == DebtOf(AfterPhase1(transactions), B, A)
        IN  result[1] =
              IF ~Exceeds(AowesB, BowesA) /\ ~Exceeds(BowesA, AowesB) THEN <<>>
              ELSE IF Less(BowesA, AowesB)
              THEN <<[from |-> A, to |-> B, amount |-> ToFixed2(Sub(AowesB, BowesA))]>>
              ELSE <<[from |-> B, to |-> A, amount |-> ToFixed2(Sub(BowesA, AowesB))]>>

\* a returned call on two participants who owed each other different amounts
C12_Witness ==
  /\ Done(1)
  /\ \E A, B \in People :
       /\ A # B
       /\ InvolvesOnly(transactions, A, B)
       /\ Less(DebtOf(AfterPhase1(transactions), B, A),
               DebtOf(AfterPhase1(transactions), A, B))
       /\ Less(Zero, DebtOf(AfterPhase1(transactions), B, A))
  /\ Len(result[1]) = 1

(***************************************************************************)
(* Degenerate input.                                                       *)
(***************************************************************************)
\* no participants, a zero amount, or the payer as the only participant
IsDegenerate(t) ==
  \/ Len(t.participants) = 0
  \/ t.amount = Zero
  \/ Members(t) = {t.paid_by}

(***************************************************************************)
(* C13: a call on a list in which every transaction has no participants, a *)
(* zero amount or the payer as sole participant (the empty list is one)    *)
(* returns the empty list, from a ledger that the cleanup has emptied and  *)
(* without a chain collapse; no step of the model raises an error.         *)
(***************************************************************************)
C13_DegenerateInput ==
  (Done(1) /\ \A i \in 1..Len(transactions) : IsDegenerate(transactions[i]))
    => result[1] = <<>> /\ Ledger(1) = <<>> /\ chainsFound[1] = 0

\* a returned call on two degenerate transactions of which one left zero
\* amounts in the ledger and one had the payer as sole participant
C13_Witness ==
  /\ Done(1)
  /\ Len(transactions) = 2
  /\ \A i \in 1..2 : IsDegenerate(transactions[i])
  /\ \E i \in 1..2 : /\ transactions[i].amount = Zero
                     /\ Debtors(transactions[i]) # {}
  /\ \E i \in 1..2 : /\ Less(Zero, transactions[i].amount)
                     /\ Members(transactions[i]) = {transactions[i].paid_by}

(***************************************************************************)
(* C14: the step of Phase 1 that processes the transaction with payer P    *)
(* and participants S adds exactly the share to every ledger entry         *)
(* (debtor p, creditor P) with p in S other than P, creates no other       *)
(* entry and leaves every other amount unchanged (a transaction without    *)
(* participants changes nothing).                                          *)
(***************************************************************************)
C14_Phase1Frame ==
  [][\A c \in Calls :
       (pc[c] = "step1" /\ idx'[c] = idx[c] + 1) =>
         LET t == transactions[idx[c]]
         IN  /\ \A X, Y \in People :
                  DebtOf(Ledger(c)', X, Y)
                    = IF X \in Debtors(t) /\ Y = t.paid_by
                      THEN Add(DebtOf(Ledger(c), X, Y), Div(t.amount, Len(t.participants)))
                      ELSE DebtOf(Ledger(c), X, Y)
             /\ Entries(Ledger(c)')
                  = Entries(Ledger(c)) \cup {<<p, t.paid_by>> : p \in Debtors(t)}]_vars

\* the second transaction has been processed; a participant who owed its payer
\* from the first one is absent from it, and another one owes a share of it
C14_Witness ==
  /\ pc[1] = "step1"
  /\ idx[1] = 3
  /\ LET t == transactions[2]
     IN  /\ Debtors(t) # {}
         /\ Less(Zero, t.amount)
         /\ \E X \in People \ Members(t) :
              /\ X \in Debtors(transactions[1])
              /\ DebtOf(Ledger(1), X, t.paid_by)
                   = Div(transactions[1].amount, Len(transactions[1].participants))
              /\ Less(Zero, transactions[1].amount)

(***************************************************************************)
(* Transactions without participants.                                      *)
(***************************************************************************)
\* txs without the transaction at k
Removed(txs, k) == [i \in 1..(Len(txs) - 1) |-> IF i < k THEN txs[i] ELSE txs[i + 1]]

(***************************************************************************)
(* C15: removing a transaction without participants, at any position of    *)
(* the list, does not change the list that simplifyDebts returns; an       *)
(* insertion is the reverse of a removal, and the lists of Inputs have     *)
(* such transactions at every position.                                    *)
(***************************************************************************)
C15_EmptyParticipantsSkipped ==
  Done(1) =>
    \A k \in 1..Len(transactions) :
      Len(transactions[k].participants) = 0
        => simplifyDebts(Removed(transactions, k)) = result[1]

\* a returned call with debts whose first transaction had no participants
C15_Witness ==
  /\ Done(1)
  /\ Len(transactions) >= 2
  /\ Len(transactions[1].participants) = 0
  /\ Less(Zero, transactions[1].amount)
  /\ Len(result[1]) >= 1

(***************************************************************************)
(* C16, as stated: after the consolidation of Step 2 and its cleanup, for  *)
(* every pair A, B at most one of the entries A owes B and B owes A is     *)
(* present; an entry A owes B that is present has the amount of the Phase  *)
(* 1 total A owes B minus the Phase 1 total B owes A, which is at least    *)
(* 0.01 (it is directed from the one who owed more); and Step 2 nets no    *)
(* pair twice.                                                             *)
(***************************************************************************)
C16_Phase2PostconditionAsStated ==
  (pc[1] = "step3" /\ chainsFound[1] = 0) =>
    LET before == AfterPhase1(transactions)
        netted == Netted(before)
    IN  /\ \A A, B \in People :
             <<A, B>> \in Entries(Ledger(1)) =>
               /\ <<B, A>> \notin Entries(Ledger(1))
               /\ AtLeast(DebtOf(before, A, B), DebtOf(before, B, A))
               /\ DebtOf(Ledger(1), A, B) = Sub(DebtOf(before, A, B), DebtOf(before, B, A))
               /\ AtLeast(DebtOf(Ledger(1), A, B), Tolerance)
        /\ \A m, n \in 1..Len(netted) : netted[m] = netted[n] => m = n

(***************************************************************************)
(* C17: when simplifyDebts has returned, the output has no two entries X   *)
(* owes Y and Y owes Z with Z different from X: who is both a debtor and a *)
(* creditor in the output is so towards one and the same counterpart.      *)
(***************************************************************************)
C17_FixpointAtReturn ==
  Done(1) =>
    \A m, n \in 1..Len(result[1]) :
      result[1][m].to = result[1][n].from => result[1][n].to = result[1][m].from

\* a returned call that collapsed a chain and returned X owes Y with Y owes X
C17_Witness ==
  /\ Done(1)
  /\ chainsFound[1] >= 1
  /\ \E m, n \in 1..Len(result[1]) :
       /\ result[1][m].to = result[1][n].from
       /\ result[1][n].to = result[1][m].from

(***************************************************************************)
(* Chain collapses.  A step of call c is a collapse when it counts a       *)
(* chain.                                                                  *)
(***************************************************************************)
IsCollapse(c) == pc[c] = "step3" /\ chainsFound'[c] = chainsFound[c] + 1

\* an amount that Step 3 stores: below 0.01 the entry is deleted
Kept(amount) == IF AtLeast(amount, Tolerance) THEN amount ELSE Zero

(***************************************************************************)
(* C18: a chain collapse acts on entries A owes B (x) and B owes C (y)     *)
(* with C different from A and t = min(x, y) at least 0.01: afterwards A   *)
(* owes C its previous amount (0 if absent) plus t, A owes B x - t and B   *)
(* owes C y - t, where an amount below 0.01 means that the entry is        *)
(* deleted; no debtor is left without creditors; every other entry is      *)
(* unchanged.                                                              *)
(***************************************************************************)
C18_CollapseEffect ==
  [][\A c \in Calls :
       IsCollapse(c) =>
         \E A, B, C \in People :
           LET x == DebtOf(Ledger(c), A, B)
               y == DebtOf(Ledger(c), B, C)
               t == Min(x, y)
           IN  /\ C # A
               /\ {<<A, B>>, <<B, C>>} \subseteq Entries(Ledger(c))
               /\ AtLeast(t, Tolerance)
               /\ \A X, Y \in People :
                    DebtOf(Ledger(c)', X, Y)
                      = IF <<X, Y>> = <<A, C>> THEN Add(DebtOf(Ledger(c), A, C), t)
                        ELSE IF <<X, Y>> = <<A, B>> THEN Kept(Sub(x, t))
                        ELSE IF <<X, Y>> = <<B, C>> THEN Kept(Sub(y, t))
                        ELSE DebtOf(Ledger(c), X, Y)
               /\ Entries(Ledger(c)')
                    = ((Entries(Ledger(c)) \cup {<<A, C>>})
                         \ (IF Less(Sub(x, t), Tolerance) THEN {<<A, B>>} ELSE {}))
                         \ (IF Less(Sub(y, t), Tolerance) THEN {<<B, C>>} ELSE {})
               /\ \A i \in 1..Len(Ledger(c)') : Len(Ledger(c)'[i][2]) >= 1]_vars

\* the first chain has been collapsed onto an entry A owes C that was present,
\* and its shorter leg has been deleted
C18_Witness ==
  /\ pc[1] = "step3"
  /\ chainsFound[1] = 1
  /\ LET pd == AfterPhase2(transactions)
         ch == FindChain(pd)
     IN  /\ <<ch.debtorA, ch.creditorC>> \in Entries(pd)
         /\ ch.amountAtoB # ch.amountBtoC
         /\ Cardinality(Entries(Ledger(1))) = 2

\* the exact sum of what is owed to P over a ledger, and of what P owes
OwedTo(P, pd) == SumExact([X \in People |-> DebtOf(pd, X, P)], People)

OwedBy(P, pd) == SumExact([X \in People |-> DebtOf(pd, P, X)], People)

\* the net balance of P (what is owed to P minus what P owes) is the same over the
\* ledgers pd and qd
SameBalance(P, pd, qd) ==
  Plus(OwedTo(P, pd), OwedBy(P, qd)) = Plus(OwedTo(P, qd), OwedBy(P, pd))

\* a reduced leg of the chain keeps an amount strictly between 0 and 0.01
LeavesResidue(ch) ==
  LET t == Min(ch.amountAtoB, ch.amountBtoC)
  IN  \/ (Less(Zero, Sub(ch.amountAtoB, t)) /\ Less(Sub(ch.amountAtoB, t), Tolerance))
      \/ (Less(Zero, Sub(ch.amountBtoC, t)) /\ Less(Sub(ch.amountBtoC, t), Tolerance))

(***************************************************************************)
(* C19, as stated: a chain collapse in which neither reduced leg leaves a  *)
(* residue strictly between 0 and 0.01 leaves the net balance of every     *)
(* participant over the ledger unchanged.                                  *)
(***************************************************************************)
C19_CollapsePreservesBalancesAsStated ==
  [][\A c \in Calls :
       (IsCollapse(c) /\ ~LeavesResidue(FindChain(Ledger(c)))) =>
         \A P \in People : SameBalance(P, Ledger(c)', Ledger(c))]_vars

\* 2^-30, less than 10^-9: above the rounding errors of three operations on
\* amounts below 2^20
Tiny == <<0, 0, 1>>

\* the net balance of P differs by less than 2^-30 between the ledgers pd and qd
NearBalance(P, pd, qd) ==
  LET a == Plus(OwedTo(P, pd), OwedBy(P, qd))
      b == Plus(OwedTo(P, qd), OwedBy(P, pd))
  IN  Less(a, Plus(b, Tiny)) /\ Less(b, Plus(a, Tiny))

(***************************************************************************)
(* C19, amended: such a chain collapse changes the net balance of every    *)
(* participant by no more than the rounding errors of its additions and    *)
(* subtractions of doubles: by less than 2^-30.                            *)
(***************************************************************************)
C19_CollapsePreservesBalancesRounded ==
  [][\A c \in Calls :
       (IsCollapse(c) /\ ~LeavesResidue(FindChain(Ledger(c)))) =>
         \A P \in People : NearBalance(P, Ledger(c)', Ledger(c))]_vars

\* the first chain has been collapsed; its legs differed by at least 0.01 and the
\* longer one remains, with a rounded amount that changes a balance
C19_Witness ==
  /\ pc[1] = "step3"
  /\ chainsFound[1] = 1
  /\ LET ch == FindChain(AfterPhase2(transactions))
     IN  /\ ~LeavesResidue(ch)
         /\ Less(ch.amountBtoC, ch.amountAtoB)
         /\ DebtOf(Ledger(1), ch.debtorA, ch.intermediaryB)
              = Sub(ch.amountAtoB, ch.amountBtoC)
         /\ \E P \in People : ~SameBalance(P, Ledger(1), AfterPhase2(transactions))

\* the sum of all amounts of a ledger
LedgerSum(pd) ==
  SumExact([e \in Entries(pd) |-> DebtOf(pd, e[1], e[2])], Entries(pd))

(***************************************************************************)
(* C20, as stated: every chain collapse transfers at least 0.01, decreases *)
(* the sum of all ledger amounts by at least the transferred amount and    *)
(* does not increase the number of debtor-creditor entries; so the output  *)
(* has at most as many entries as the ledger after the cleanup of Phase 2. *)
(***************************************************************************)
C20_ProgressMeasureAsStated ==
  /\ [][\A c \in Calls :
          IsCollapse(c) =>
            LET ch == FindChain(Ledger(c))
                t == Min(ch.amountAtoB, ch.amountBtoC)
            IN  /\ AtLeast(t, Tolerance)
                /\ AtLeast(LedgerSum(Ledger(c)), Plus(LedgerSum(Ledger(c)'), t))
                /\ Cardinality(Entries(Ledger(c)')) <= Cardinality(Entries(Ledger(c)))]_vars
  /\ [](Done(1) =>
          Len(result[1]) <= Cardinality(Entries(AfterPhase2(transactions))))

(***************************************************************************)
(* C20, amended: every chain collapse transfers an amount t of at least    *)
(* 0.01, decreases the sum of all ledger amounts by t up to the rounding   *)
(* errors of its additions and subtractions of doubles (by more than       *)
(* t - 2^-30) and does not increase the number of debtor-creditor entries; *)
(* so the output has at most as many entries as the ledger after the       *)
(* cleanup of Phase 2.                                                     *)
(***************************************************************************)
C20_ProgressMeasureRounded ==
  /\ [][\A c \in Calls :
          IsCollapse(c) =>
            LET ch == FindChain(Ledger(c))
                t == Min(ch.amountAtoB, ch.amountBtoC)
            IN  /\ AtLeast(t, Tolerance)
                /\ Less(Plus(LedgerSum(Ledger(c)'), t), Plus(LedgerSum(Ledger(c)), Tiny))
                /\ Cardinality(Entries(Ledger(c)')) <= Cardinality(Entries(Ledger(c)))]_vars
  /\ [](Done(1) =>
          Len(result[1]) <= Cardinality(Entries(AfterPhase2(transactions))))

\* a returned call that collapsed two chains and returned fewer debts than the
\* ledger held after Phase 2
C20_Witness ==
  /\ Done(1)
  /\ chainsFound[1] >= 2
  /\ Len(result[1]) < Cardinality(Entries(AfterPhase2(transactions)))

(***************************************************************************)
(* C21: from the end of the cleanup of Phase 2 until simplifyDebts         *)
(* returns, at every boundary of a loop iteration every ledger entry has   *)
(* an amount of at least 0.01 and no debtor has an empty creditor map; the *)
(* returned list has exactly one entry per ledger entry, and no two of its *)
(* entries have the same from and to.                                      *)
(***************************************************************************)
C21_LedgerInvariant ==
  \A c \in Calls :
    /\ pc[c] \in {"step3", "done"} =>
         /\ \A e \in Entries(Ledger(c)) : AtLeast(DebtOf(Ledger(c), e[1], e[2]), Tolerance)
         /\ \A i \in 1..Len(Ledger(c)) : Len(Ledger(c)[i][2]) >= 1
    /\ Done(c) =>
         /\ Len(result[c]) = Cardinality(Entries(Ledger(c)))
         /\ {<<result[c][m].from, result[c][m].to>> : m \in 1..Len(result[c])}
              = Entries(Ledger(c))
         /\ \A m \in 1..Len(result[c]) :
              result[c][m].amount
                = ToFixed2(DebtOf(Ledger(c), result[c][m].from, result[c][m].to))

\* a returned call that collapsed a chain and deleted a debtor, with two debts
C21_Witness ==
  /\ Done(1)
  /\ chainsFound[1] >= 1
  /\ Len(Ledger(1)) < Len(AfterPhase2(transactions))
  /\ Len(result[1]) >= 2

(***************************************************************************)
(* C22, as stated: while a load that fetchTransactions started is in       *)
(* flight and invalidateTransactionsCache has not been called since it     *)
(* started, every call of fetchTransactions returns the promise of that    *)
(* load and starts no backend query.                                       *)
(***************************************************************************)
C22_FetchDeduplicatedAsStated ==
  [][fetchTransactions =>
       \A k \in InFlight :
         loads[k].current =>
           /\ returned' = Some(SettlesAs(k))
           /\ StartedLoads' = StartedLoads]_vars

\* the query that was started last
LatestLoad == Cardinality(StartedLoads)

\* what the promise of a settled query leaves in cache.data: its rows, or the
\* empty list after an error
Outcome(k) == IF loads[k].status = "fulfilled" THEN loads[k].data ELSE <<>>

(***************************************************************************)
(* C23, as stated: when a load was started while an earlier one was in     *)
(* flight, then at the completion of whichever of the two completes last   *)
(* cache.data holds the result of the load that was started later.         *)
(***************************************************************************)
C23_ReloadWinsAsStated ==
  [][\A j \in InFlight :
       (loads'[j].status # "pending" /\ InFlight' = {} /\ loads[LatestLoad].current)
         => cache'.data = Some(Outcome(LatestLoad)')]_vars

(***************************************************************************)
(* C24, as stated: in every reachable state cache.loading is true exactly  *)
(* while a backend load is in flight, cache.promise is non-null exactly    *)
(* while a backend load is in flight, and at most one load is in flight.   *)
(***************************************************************************)
C24_LoadingFlagAsStated ==
  /\ cache.loading <=> InFlight # {}
  /\ cache.promise # Null <=> InFlight # {}
  /\ Cardinality(InFlight) <= 1

(***************************************************************************)
(* C25, as stated: the completion of a load with an error rejects its      *)
(* promise and leaves the message in cache.error, the empty list in        *)
(* cache.data and cache.loading false; from then on, until                 *)
(* invalidateTransactionsCache or reloadTransactions is called (which is   *)
(* as long as cache.error is set), the list and the error stay as they     *)
(* are, no query is started and every fetchTransactions resolves with the  *)
(* list.  The sentence is read in its weakest sense: a step of             *)
(* updateTransactionsCache, which replaces the list on request, is not     *)
(* held against it.                                                        *)
(***************************************************************************)
C25_FailedLoadAsStated ==
  /\ [][\A k \in InFlight : \A m \in Messages :
          loadDataCompletes(k, [data |-> Null, error |-> Some(m)]) =>
            /\ loads'[k].status = "rejected"
            /\ cache'.error = Some(m)
            /\ cache'.data = Some(<<>>)
            /\ ~cache'.loading]_vars
  /\ [][(/\ cache.error # Null
         /\ ~invalidateTransactionsCache
         /\ ~reloadTransactions
         /\ \A updater \in Updaters : ~updateTransactionsCache(updater)) =>
          /\ cache'.data = cache.data
          /\ cache'.error = cache.error
          /\ StartedLoads' = StartedLoads
          /\ fetchTransactions => returned' = Some(Resolved(cache.data[1]))]_vars
(***************************************************************************)
(* C26: a call of updateTransactionsCache while cache.data is null leaves  *)
(* the whole cache as it is and calls no callback; a call while cache.data *)
(* holds a list replaces the list by updater(list), leaves loading, error  *)
(* and promise as they are, and calls every subscribed callback exactly    *)
(* once and no other callback.                                             *)
(***************************************************************************)
C26_CacheUpdate ==
  [][\A updater \in Updaters :
       updateTransactionsCache(updater) =>
         IF cache.data = Null
         THEN /\ cache' = cache
              /\ \A cb \in Callbacks : called'[cb] = 0
         ELSE /\ cache'.data = Some(Apply(updater, cache.data[1]))
              /\ cache'.loading = cache.loading
              /\ cache'.error = cache.error
              /\ cache'.promise = cache.promise
              /\ \A cb \in Callbacks :
                   called'[cb] = IF cb \in subscribers THEN 1 ELSE 0]_vars

\* an update has just put a row that no query returned into the list, with a
\* callback subscribed and another one not
C26_Witness ==
  /\ cache.data = Some(<<CHOOSE r \in Rows : TRUE>>)
  /\ \A k \in 1..MaxLoads : loads[k].data # <<CHOOSE r \in Rows : TRUE>>
  /\ \E cb \in subscribers : called[cb] = 1
  /\ subscribers # Callbacks

(***************************************************************************)
(* C27, as stated: every step that changes cache.data, cache.loading or    *)
(* cache.error calls every subscribed callback, and no step calls a        *)
(* callback whose unsubscribe function has been called.                    *)
(***************************************************************************)
C27_NotificationAsStated ==
  [][/\ (\/ cache'.data # cache.data
         \/ cache'.loading # cache.loading
         \/ cache'.error # cache.error)
          => \A cb \in subscribers : called'[cb] >= 1
     /\ \A cb \in unsubscribed : called'[cb] = 0]_vars

====
